---- MODULE Spec2Model ----
(***************************************************************************)
(* Model of the NestJS logging and error-handling demo:                    *)
(*   - AllExceptionsFilter.catch (src/filters/all-exceptions.filter.ts),   *)
(*   - the process-wide NODE_ENV flag it reads on every call,              *)
(*   - the logger configuration computed once at module load.              *)
(*                                                                         *)
(* JavaScript values are tagged records, strings are TLA+ strings, so      *)
(* that joining, string conversion and formatting are computed.            *)
(***************************************************************************)
EXTENDS Integers, Sequences, FiniteSets, TLC

(***************************************************************************)
(* Bounds of the model.                                                    *)
(***************************************************************************)
\* longest array carried in a payload's message field
MaxLen == 2
\* last instant (in ms since the epoch) the clock reaches
MaxClock == 1
\* number of exceptions handled in one behaviour
MaxCalls == 2

(***************************************************************************)
(* JavaScript values.                                                      *)
(***************************************************************************)
Undefined == [t |-> "undefined"]
Null == [t |-> "null"]
Symbol == [t |-> "symbol"]
Str(s) == [t |-> "string", s |-> s]
Num(n) == [t |-> "number", n |-> n]
\* an array of strings
Arr(a) == [t |-> "array", a |-> a]
\* an array holding a Symbol, which Array.prototype.join cannot convert
SymbolArr == [t |-> "array", bad |-> TRUE]
\* an object with the given own properties; printable: String(o) succeeds
Obj(f) == [t |-> "object", f |-> f, printable |-> TRUE]
\* an object without a usable toString, such as Object.create(null)
BareObj == [t |-> "object", f |-> <<>>, printable |-> FALSE]

IsString(v) == v.t = "string"
IsArray(v) == v.t = "array"
\* typeof v === "object" && v !== null
IsObjectNotNull(v) == v.t \in {"object", "array"}
\* "key" in v, for an object v
HasKey(v, key) == v.t = "object" /\ key \in DOMAIN v.f

(***************************************************************************)
(* String conversions of the language runtime.                             *)
(***************************************************************************)
Digit(d) ==
  CASE d = 0 -> "0" [] d = 1 -> "1" [] d = 2 -> "2" [] d = 3 -> "3"
    [] d = 4 -> "4" [] d = 5 -> "5" [] d = 6 -> "6" [] d = 7 -> "7"
    [] d = 8 -> "8" [] d = 9 -> "9"

RECURSIVE NumberToString(_)
NumberToString(n) ==
  IF n < 10 THEN Digit(n) ELSE NumberToString(n \div 10) \o Digit(n % 10)

\* Array.prototype.join: elements k..Len(a) appended to R, a separator
\* before every element but the first
RECURSIVE JoinFrom(_, _, _, _)
JoinFrom(a, sep, k, R) ==
  IF k > Len(a) THEN R
  ELSE JoinFrom(a, sep, k + 1, (IF k > 1 THEN R \o sep ELSE R) \o a[k])

\* as Join, with a comma alone between the elements
JoinCommaOnly(a, sep) == JoinFrom(a, ",", 1, "")

Join(a, sep) == JoinFrom(a, sep, 1, "")

\* ToString fails (TypeError) on these values
StringThrows(v) ==
  \/ v.t = "object" /\ ~v.printable
  \/ v.t = "array" /\ "bad" \in DOMAIN v

\* a template literal also fails on a Symbol
TemplateThrows(v) == v.t = "symbol" \/ StringThrows(v)

\* String(v) and `${v}`, where they succeed
ToStringJS(v) ==
  CASE v.t = "string" -> v.s
    [] v.t = "undefined" -> "undefined"
    [] v.t = "null" -> "null"
    [] v.t = "number" -> NumberToString(v.n)
    [] v.t = "array" -> Join(v.a, ",")
    [] v.t = "symbol" -> "Symbol()"
    [] v.t = "object" -> "[object Object]"

\* as ToISOString, of an instant taken once, when the filter was built
ToISOStringStale(ms) == "1970-01-01T00:00:00.000Z"

\* Date.prototype.toISOString of an instant in the first second of the epoch
ToISOString(ms) ==
  "1970-01-01T00:00:00."
    \o (IF ms < 10 THEN "00" ELSE IF ms < 100 THEN "0" ELSE "")
    \o NumberToString(ms) \o "Z"

(***************************************************************************)
(* Thrown values.                                                          *)
(***************************************************************************)
\* an HttpException (or subclass): faulty names an accessor that a subclass
\* overrides so that it throws, "none" for the framework's own class
HttpExc(status, response, faulty) ==
  [kind |-> "HttpException", status |-> status, response |-> response,
   faulty |-> faulty, stack |-> "HttpException\n    at <anonymous>"]

\* an Error that is not an HttpException
Err(msg) ==
  [kind |-> "Error", message |-> msg,
   stack |-> "Error: " \o msg \o "\n    at <anonymous>"]

\* any other thrown value
Thrown(v) == [kind |-> "value", val |-> v]

\* exception instanceof HttpException
IsHttpException(e) == e.kind = "HttpException"
\* exception instanceof Error (HttpException extends Error)
IsError(e) == e.kind \in {"Error", "HttpException"}

(***************************************************************************)
(* AllExceptionsFilter: the computations of catch.                         *)
(***************************************************************************)
\* HttpStatus.INTERNAL_SERVER_ERROR
INTERNAL_SERVER_ERROR == 500
\* HttpStatus.BAD_REQUEST
BAD_REQUEST == 400
\* message of a classified exception whose payload has no usable form
HttpFallbackMessage == "An HTTP error occurred"
\* message of an unclassified exception that is not disclosed
InternalErrorMessage == "Internal server error"
\* AllExceptionsFilter.name
FilterName == "AllExceptionsFilter"

\* as HttpStatusOf, ignoring the status the exception declares
HttpStatusAlways500(e) == INTERNAL_SERVER_ERROR

\* as HttpStatusOf, with 400 as the status of an unclassified exception
HttpStatusDefault400(e) ==
  IF IsHttpException(e) THEN e.status ELSE BAD_REQUEST

\* exception instanceof HttpException ? exception.getStatus() : 500
HttpStatusOf(e) ==
  IF IsHttpException(e) THEN e.status ELSE INTERNAL_SERVER_ERROR

\* httpAdapter.getRequestUrl(request): the adapter hands back the URL the
\* request was made with
GetRequestUrl(req) == req.originalUrl

\* ctx.getResponse(): the response handle of the request being handled
\* as GetResponse, handing back the response of the first request
GetResponseFirst(req) == [of |-> 1]

GetResponse(req) == [of |-> req.id]

\* as HttpMessage, testing the string payload for truthiness
HttpMessageTruthy(response) ==
  IF IsObjectNotNull(response) /\ HasKey(response, "message")
  THEN LET msg == response.f.message
       IN  IF IsArray(msg) THEN Str(Join(msg.a, ", ")) ELSE msg
  ELSE IF IsString(response) /\ response.s # "" THEN response
  ELSE Str(HttpFallbackMessage)

\* as HttpMessage, with the string form of the payload where HttpMessage
\* has its fallback
HttpMessageNoFallback(response) ==
  IF IsObjectNotNull(response) /\ HasKey(response, "message")
  THEN LET msg == response.f.message
       IN  IF IsArray(msg) THEN Str(Join(msg.a, ", ")) ELSE msg
  ELSE IF IsString(response) THEN response
  ELSE Str(ToStringJS(response))

\* message of a classified exception, from its payload
HttpMessage(response) ==
  IF IsObjectNotNull(response) /\ HasKey(response, "message")
  THEN LET msg == response.f.message
       IN  IF IsArray(msg) THEN Str(Join(msg.a, ", ")) ELSE msg
  ELSE IF IsString(response) THEN response
  ELSE Str(HttpFallbackMessage)

\* as UnclassifiedMessage, without the test of NODE_ENV
UnclassifiedMessageLeaky(e, env) ==
  IF IsError(e) THEN Str(e.message) ELSE Str(InternalErrorMessage)

\* as UnclassifiedMessage, with the test of NODE_ENV inverted
UnclassifiedMessageInverted(e, env) ==
  IF env = Str("production") /\ IsError(e)
  THEN Str(e.message)
  ELSE Str(InternalErrorMessage)

\* message of an unclassified exception, env being process.env.NODE_ENV
UnclassifiedMessage(e, env) ==
  IF env # Str("production") /\ IsError(e)
  THEN Str(e.message)
  ELSE Str(InternalErrorMessage)

\* as MessageOf, redacting every message in production
MessageOfRedactAll(e, env) ==
  IF env = Str("production") THEN Str(InternalErrorMessage)
  ELSE IF IsHttpException(e) THEN HttpMessage(e.response)
  ELSE UnclassifiedMessage(e, env)

\* message: payload dispatch for an HttpException, redaction otherwise
MessageOf(e, env) ==
  IF IsHttpException(e) THEN HttpMessage(e.response)
  ELSE UnclassifiedMessage(e, env)

\* errorCode as left by the payload dispatch; Undefined when never assigned
ErrorCodeOf(e) ==
  IF /\ IsHttpException(e)
     /\ IsObjectNotNull(e.response)
     /\ HasKey(e.response, "errorCode")
  THEN e.response.f.errorCode
  ELSE Undefined

\* as ResponseBody, with the default status written into the body
ResponseBodyStatus500(httpStatus, timestamp, path, message, errorCode) ==
  IF errorCode # Undefined
  THEN [statusCode |-> INTERNAL_SERVER_ERROR, timestamp |-> timestamp,
        path |-> path, message |-> message, errorCode |-> errorCode]
  ELSE [statusCode |-> INTERNAL_SERVER_ERROR, timestamp |-> timestamp,
        path |-> path, message |-> message]

\* as ResponseBody, with errorCode written into the body unconditionally
ResponseBodyAlwaysKey(httpStatus, timestamp, path, message, errorCode) ==
  [statusCode |-> httpStatus, timestamp |-> timestamp, path |-> path,
   message |-> message, errorCode |-> errorCode]

\* the object literal responseBody; errorCode is spread in only when defined
ResponseBody(httpStatus, timestamp, path, message, errorCode) ==
  IF errorCode # Undefined
  THEN [statusCode |-> httpStatus, timestamp |-> timestamp, path |-> path,
        message |-> message, errorCode |-> errorCode]
  ELSE [statusCode |-> httpStatus, timestamp |-> timestamp, path |-> path,
        message |-> message]

\* first argument of logger.error
LogText(message) == "Exception caught: " \o ToStringJS(message)

\* second argument of logger.error
LogTrace(e) == IF IsError(e) THEN e.stack ELSE ToStringJS(e.val)

\* inspecting the payload fails: getResponse throws, or join meets a Symbol
PayloadThrows(e) ==
  /\ IsHttpException(e)
  /\ \/ e.faulty = "getResponse"
     \/ /\ e.faulty = "none"
        /\ HasKey(e.response, "message")
        /\ e.response.f.message = SymbolArr

\* building the arguments of logger.error fails
LogArgumentsThrow(e, message) ==
  TemplateThrows(message) \/ (~IsError(e) /\ StringThrows(e.val))

\* as SendReply, with a failed call caught and made a second time
SendReplyRetry(r, call, fault) ==
  IF fault = "reply"
  THEN [r EXCEPT !.events = @ \o <<"reply", "reply">>,
                 !.replies = <<call, call>>]
  ELSE [r EXCEPT !.events = Append(@, "reply"), !.replies = <<call>>]

\* httpAdapter.reply(ctx.getResponse(), responseBody, httpStatus), the last
\* statement of catch: one call, whose failure is not caught
SendReply(r, call, fault) ==
  LET sent == [r EXCEPT !.events = Append(@, "reply"), !.replies = <<call>>]
  IN  IF fault = "reply" THEN [sent EXCEPT !.threw = TRUE] ELSE sent

\* as CatchRun, replying before the log record is emitted
CatchRunReplyFirst(e, req, env, ms, fault) ==
  LET r0 == [events |-> <<>>, logs |-> <<>>, replies |-> <<>>, threw |-> FALSE]
  IN
  IF IsHttpException(e) /\ e.faulty = "getStatus"
  THEN [r0 EXCEPT !.threw = TRUE]
  ELSE
  LET httpStatus == HttpStatusOf(e)
      r1 == [r0 EXCEPT !.events = <<"getRequestUrl">>]
  IN
  IF fault = "url" THEN [r1 EXCEPT !.threw = TRUE]
  ELSE IF PayloadThrows(e) THEN [r1 EXCEPT !.threw = TRUE]
  ELSE
  LET path == GetRequestUrl(req)
      message == MessageOf(e, env)
      errorCode == ErrorCodeOf(e)
      responseBody ==
        ResponseBody(httpStatus, ToISOString(ms), path, message, errorCode)
  IN
  IF LogArgumentsThrow(e, message) THEN [r1 EXCEPT !.threw = TRUE]
  ELSE
  LET entry == [level |-> "error", text |-> LogText(message),
                trace |-> LogTrace(e), context |-> FilterName]
      sent == SendReply(r1, [response |-> GetResponse(req),
                             body |-> responseBody, status |-> httpStatus],
                        fault)
      logged == [sent EXCEPT !.events = Append(@, "log"), !.logs = <<entry>>]
  IN
  IF sent.threw THEN sent
  ELSE IF fault = "log" THEN [logged EXCEPT !.threw = TRUE]
  ELSE logged

\* One run of catch(exception, host) with NODE_ENV = env at instant ms.
\* fault names the collaborator call that fails, "none" when all succeed.
\* The result lists the calls made on the collaborators, in order, and
\* whether catch ended by throwing.
CatchRun(e, req, env, ms, fault) ==
  LET r0 == [events |-> <<>>, logs |-> <<>>, replies |-> <<>>, threw |-> FALSE]
  IN
  IF IsHttpException(e) /\ e.faulty = "getStatus"
  THEN [r0 EXCEPT !.threw = TRUE]
  ELSE
  LET httpStatus == HttpStatusOf(e)
      r1 == [r0 EXCEPT !.events = <<"getRequestUrl">>]
  IN
  IF fault = "url" THEN [r1 EXCEPT !.threw = TRUE]
  ELSE IF PayloadThrows(e) THEN [r1 EXCEPT !.threw = TRUE]
  ELSE
  LET path == GetRequestUrl(req)
      message == MessageOf(e, env)
      errorCode == ErrorCodeOf(e)
      responseBody ==
        ResponseBody(httpStatus, ToISOString(ms), path, message, errorCode)
  IN
  IF LogArgumentsThrow(e, message) THEN [r1 EXCEPT !.threw = TRUE]
  ELSE
  LET entry == [level |-> "error", text |-> LogText(message),
                trace |-> LogTrace(e), context |-> FilterName]
      r2 == [r1 EXCEPT !.events = Append(@, "log"), !.logs = <<entry>>]
  IN
  IF fault = "log" THEN [r2 EXCEPT !.threw = TRUE]
  ELSE
  SendReply(r2, [response |-> GetResponse(req), body |-> responseBody,
                 status |-> httpStatus], fault)

(***************************************************************************)
(* Logger configuration (logger.config.ts), computed at module load.       *)
(***************************************************************************)
\* process.env.NODE_ENV === "production"
IsProductionEnv(env) == env = Str("production")

\* as PinoHttpOptions, with the pretty-printing transport always attached
PinoHttpOptionsAlwaysPretty(isProd) ==
  [level |-> IF isProd THEN "info" ELSE "debug",
   transport |-> [target |-> "pino-pretty",
                  options |-> [colourise |-> TRUE,
                               translateTime |-> "SYS:standard"]]]

PinoHttpOptions(isProd) ==
  IF isProd
  THEN [level |-> "info"]
  ELSE [level |-> "debug",
        transport |-> [target |-> "pino-pretty",
                       options |-> [colourise |-> TRUE,
                                    translateTime |-> "SYS:standard"]]]

(***************************************************************************)
(* bootstrap (main.ts).                                                    *)
(***************************************************************************)
\* the port used when PORT gives none
DEFAULT_PORT == 3000

\* the numbers whose decimal text Number() is asked to read
DecimalRange == 0..9999

NaN == [t |-> "number", nan |-> TRUE]

\* Number(v) for undefined and for the texts of the model: the empty text
\* is 0, decimal digits are their number, anything else is NaN
NumberJS(v) ==
  IF v.t = "undefined" THEN NaN
  ELSE IF v.s = "" THEN Num(0)
  ELSE IF \E n \in DecimalRange : NumberToString(n) = v.s
       THEN Num(CHOOSE n \in DecimalRange : NumberToString(n) = v.s)
       ELSE NaN

\* a number that || takes for false
FalsyNumber(v) == "nan" \in DOMAIN v \/ v.n = 0

\* Number(process.env.PORT) || 3000
PortOf(portText) ==
  LET n == NumberJS(portText)
  IN  IF FalsyNumber(n) THEN DEFAULT_PORT ELSE n.n

\* as BootOrder, with listen called before the logger and the filter are set
BootOrderListenFirst ==
  <<"create", "listen", "useLogger", "useGlobalFilters", "log">>

\* the statements of bootstrap(), in program order
BootOrder == <<"create", "useLogger", "useGlobalFilters", "listen", "log">>

\* the application before NestFactory.create
NoApp ==
  [created |-> FALSE, logger |-> "none", filters |-> <<>>,
   listening |-> FALSE, port |-> 0, log |-> <<>>]

\* the effect of one statement of bootstrap() on the application
BootEffect(app, name, portText) ==
  CASE name = "create" ->
         [app EXCEPT !.created = TRUE, !.logger = "buffer"]
    [] name = "useLogger" -> [app EXCEPT !.logger = "pino"]
    [] name = "useGlobalFilters" ->
         [app EXCEPT !.filters = Append(@, FilterName)]
    [] name = "listen" ->
         [app EXCEPT !.listening = TRUE, !.port = PortOf(portText)]
    [] name = "log" ->
         [app EXCEPT !.log = Append(@,
            [text |-> "Application is running on: http://localhost:"
                        \o NumberToString(app.port),
             context |-> "Bootstrap"])]

(***************************************************************************)
(* Inputs.                                                                 *)
(***************************************************************************)
SeqsUpTo(S, n) == UNION {[1..k -> S] : k \in 0..n}

\* values of process.env.NODE_ENV; Undefined when the variable is unset
NodeEnvs == {Undefined, Str("production"), Str("development")}

Statuses == {BAD_REQUEST, INTERNAL_SERVER_ERROR}

Texts == {"", "Forbidden", "Validation failed"}

Items == {"Error one", "Error two"}

MessageFields ==
  {Str(s) : s \in Texts}
    \cup {Arr(a) : a \in SeqsUpTo(Items, MaxLen)}
    \cup {Undefined, Null, Num(42), Obj([x \in {} |-> Undefined]),
          Symbol, SymbolArr}

ErrorCodeFields == {Str("RESOURCE_NOT_FOUND"), Undefined, Null, Num(7)}

\* own properties of the structured payloads
PayloadFields ==
  {[message |-> m] : m \in MessageFields}
    \cup {[message |-> Str("Not found"), errorCode |-> c] : c \in ErrorCodeFields}
    \cup {[errorCode |-> c] : c \in ErrorCodeFields}
    \cup {[x \in {} |-> Undefined],
          [reason |-> Str("Bad request for filter testing")],
          [message |-> Str("Late"),
           timestamp |-> Str("2001-01-01T00:00:00.000Z")]}

Responses == {Str(s) : s \in Texts} \cup {Obj(f) : f \in PayloadFields}

ErrorMessages ==
  {"Sensitive detail", "Intentional error for filter testing",
   InternalErrorMessage}

\* AppController.getError: throw new Error(...)
GetError == Err("Intentional error for filter testing")

\* AppController.getHttpError: throw new HttpException({ reason }, 400)
GetHttpError ==
  HttpExc(BAD_REQUEST, Obj([reason |-> Str("Bad request for filter testing")]),
          "none")

\* every payload under status 400, and three payloads under every status
Exceptions ==
  {HttpExc(BAD_REQUEST, r, "none") : r \in Responses}
    \cup {HttpExc(st, r, "none") :
            st \in Statuses,
            r \in {Str("Forbidden"), Obj([message |-> Str("Validation failed")]),
                   Obj([errorCode |-> Str("RESOURCE_NOT_FOUND")])}}
    \cup {HttpExc(BAD_REQUEST, Str("Forbidden"), f) :
            f \in {"getStatus", "getResponse"}}
    \cup {Err(m) : m \in ErrorMessages}
    \cup {Thrown(v) : v \in {Str("Sensitive detail"), Null, Undefined, Num(42),
                             Obj([message |-> Str("Sensitive detail")]),
                             BareObj}}

\* the URLs requested: a path and a query string, empty when there is none
Urls ==
  {[path |-> "/test-path", query |-> ""],
   [path |-> "/test-path", query |-> "page=2"],
   [path |-> "/http-error", query |-> ""]}

\* request.originalUrl: the URL as the client sent it
OriginalUrl(url) ==
  IF url.query = "" THEN url.path ELSE url.path \o "?" \o url.query

\* values of process.env.PORT; Undefined when the variable is unset
PortEnvs ==
  {Undefined, Str(""), Str("0"), Str("abc"), Str("8080"), Str("3000")}

\* the collaborator call that fails during one run of catch
Faults == {"none", "url", "log", "reply"}

\* placeholder of the per-request variables between requests
None == [kind |-> "none"]

(***************************************************************************)
(* State.                                                                  *)
(***************************************************************************)
VARIABLES
  nodeEnv,          \* process.env.NODE_ENV
  isProduction,     \* logger.config.ts: const isProduction
  pinoHttpOptions,  \* logger.config.ts: export const pinoHttpOptions
  now,              \* the clock read by new Date(), ms since the epoch
  pc,               \* "boot" (modules not loaded), "idle", "raised" (catch
                    \* about to run), "handled"
  exception,        \* the thrown value handed to catch
  request,          \* the request whose handling threw
  fault,            \* the collaborator call that fails in this run
  result,           \* what this run of catch did
  handled,          \* number of runs of catch so far
  prev,             \* NODE_ENV, redaction and timestamp of the previous run
  portEnv,          \* process.env.PORT
  stage,            \* number of statements of bootstrap() executed
  application       \* the Nest application built by bootstrap()

vars ==
  <<nodeEnv, isProduction, pinoHttpOptions, now, pc, exception, request,
    fault, result, handled, prev, portEnv, stage, application>>

\* the variables of bootstrap()
bootVars == <<portEnv, stage, application>>

\* as ReadNodeEnv, from the flag computed when the modules were loaded
ReadCachedFlag ==
  IF isProduction THEN Str("production") ELSE Str("development")

\* process.env.NODE_ENV as read at line 341, inside catch
ReadNodeEnv == nodeEnv

\* the state of the process as it starts, PORT being one of ports
InitWith(ports) ==
  /\ portEnv \in ports
  /\ stage = 0
  /\ application = NoApp
  /\ nodeEnv \in NodeEnvs
  /\ isProduction = FALSE   \* not computed before logger.config.ts is loaded
  /\ pinoHttpOptions = None
  /\ now = 0
  /\ pc = "boot"
  /\ exception = None
  /\ request = None
  /\ fault = "none"
  /\ result = None
  /\ handled = 0
  /\ prev = None

\* the process starts with PORT unset
Init == InitWith({Undefined})

\* the process starts with any value of PORT
InitAnyPort == InitWith(PortEnvs)

\* logger.config.ts is loaded: its constants are computed, once, from the
\* value NODE_ENV has at that moment
LoadConfig ==
  /\ pc = "boot"
  /\ isProduction' = IsProductionEnv(nodeEnv)
  /\ pinoHttpOptions' = PinoHttpOptions(IsProductionEnv(nodeEnv))
  /\ pc' = "idle"
  /\ UNCHANGED <<nodeEnv, now, exception, request, fault, result, handled,
                 prev, bootVars>>

\* the next statement of bootstrap(), once the modules are loaded
BootStep ==
  /\ pc = "idle"
  /\ stage < Len(BootOrder)
  /\ application' = BootEffect(application, BootOrder[stage + 1], portEnv)
  /\ stage' = stage + 1
  /\ UNCHANGED <<nodeEnv, isProduction, pinoHttpOptions, now, pc, exception,
                 request, fault, result, handled, prev, portEnv>>

\* as SetNodeEnv, recomputing the logger configuration from the new value
SetNodeEnvReload(v) ==
  /\ pc \in {"idle", "raised"}
  /\ v # nodeEnv
  /\ nodeEnv' = v
  /\ isProduction' = IsProductionEnv(v)
  /\ pinoHttpOptions' = PinoHttpOptions(IsProductionEnv(v))
  /\ UNCHANGED <<now, pc, exception, request, fault, result, handled, prev,
                 bootVars>>

\* process.env.NODE_ENV is assigned or deleted at run time
SetNodeEnv(v) ==
  /\ pc \in {"idle", "raised"}
  /\ v # nodeEnv
  /\ nodeEnv' = v
  /\ UNCHANGED <<isProduction, pinoHttpOptions, now, pc, exception, request,
                 fault, result, handled, prev, bootVars>>

\* time passes
Tick ==
  /\ pc \in {"idle", "raised"}
  /\ now < MaxClock
  /\ now' = now + 1
  /\ UNCHANGED <<nodeEnv, isProduction, pinoHttpOptions, pc, exception,
                 request, fault, result, handled, prev, bootVars>>

\* the handling of a request throws e; the framework is about to call catch
Raise(e, url, f) ==
  /\ pc = "idle"
  /\ stage = Len(BootOrder)
  /\ application.listening
  /\ handled < MaxCalls
  /\ pc' = "raised"
  /\ exception' = e
  /\ request' = [id |-> handled + 1, originalUrl |-> OriginalUrl(url),
                 path |-> url.path]
  /\ fault' = f
  /\ UNCHANGED <<nodeEnv, isProduction, pinoHttpOptions, now, result,
                 handled, prev, bootVars>>

\* AllExceptionsFilter.catch(exception, host), synchronous
Catch ==
  /\ pc = "raised"
  /\ result' = CatchRun(exception, request, ReadNodeEnv, now, fault)
  /\ pc' = "handled"
  /\ handled' = handled + 1
  /\ UNCHANGED <<nodeEnv, isProduction, pinoHttpOptions, now, exception,
                 request, fault, prev, bootVars>>

\* catch has returned (or thrown): its locals are gone, the request is over
Finish ==
  /\ pc = "handled"
  /\ pc' = "idle"
  /\ prev' = [kind |-> "run", env |-> nodeEnv,
              redacted |-> /\ result.replies # <<>>
                           /\ result.replies[1].body.message
                                = Str(InternalErrorMessage),
              timestamp |-> IF result.replies # <<>>
                            THEN result.replies[1].body.timestamp
                            ELSE ""]
  /\ exception' = None
  /\ request' = None
  /\ fault' = "none"
  /\ result' = None
  /\ UNCHANGED <<nodeEnv, isProduction, pinoHttpOptions, now, handled,
                 bootVars>>

Next ==
  \/ LoadConfig
  \/ BootStep
  \/ \E v \in NodeEnvs : SetNodeEnv(v)
  \/ Tick
  \/ \E e \in Exceptions, url \in Urls, f \in Faults : Raise(e, url, f)
  \/ Catch
  \/ Finish

Spec == Init /\ [][Next]_vars

\* the exceptions the routes of AppController throw
RouteExceptions == {GetError, GetHttpError}

\* the process with any value of PORT, serving the routes of AppController
NextRoutes ==
  \/ LoadConfig
  \/ BootStep
  \/ \E v \in NodeEnvs : SetNodeEnv(v)
  \/ Tick
  \/ \E e \in RouteExceptions, url \in Urls, f \in Faults : Raise(e, url, f)
  \/ Catch
  \/ Finish

SpecBoot == InitAnyPort /\ [][NextRoutes]_vars

(***************************************************************************)
(* Properties.                                                             *)
(***************************************************************************)
\* catch has just run on the current exception
Handled == pc = "handled"
\* catch has just run and called reply
Replied == Handled /\ result.replies # <<>>
\* the body passed to reply
Body == result.replies[1].body
Classified == IsHttpException(exception)
InProduction == nodeEnv = Str("production")
\* the structured payload of the current exception has this field
PayloadHas(key) ==
  /\ Classified
  /\ exception.faulty = "none"
  /\ HasKey(exception.response, key)

\* C1: for every call of catch in which the URL accessor and the logger
\* work, whatever the thrown value, reply is called exactly once.
C1_ReplyExactlyOnce ==
  (Handled /\ fault \in {"none", "reply"}) => Len(result.replies) = 1

\* C2: every body passed to reply has statusCode, timestamp, path and
\* message, and its message is a string.
C2_BodyWellFormed ==
  Replied =>
    /\ {"statusCode", "timestamp", "path", "message"} \subseteq DOMAIN Body
    /\ Body.statusCode \in Nat
    /\ Body.message.t = "string"

\* C3: the status code passed to reply equals the statusCode of the body
\* passed in the same call.
C3_StatusMatchesBody ==
  Handled =>
    \A i \in 1..Len(result.replies) :
      result.replies[i].status = result.replies[i].body.statusCode

C3_Witness ==
  /\ Replied
  /\ result.replies[1].status = BAD_REQUEST
  /\ Body.statusCode = BAD_REQUEST

\* C4: for a classified exception, whatever its payload, the body's
\* statusCode is the status the exception declares.
C4_ClassifiedStatus ==
  (Replied /\ Classified) => Body.statusCode = exception.status

C4_Witness ==
  /\ Replied
  /\ Classified
  /\ exception.status = BAD_REQUEST
  /\ exception.response.t = "object"
  /\ Body.statusCode = BAD_REQUEST

\* C5: for an unclassified exception statusCode is 500, whatever NODE_ENV is.
C5_UnclassifiedStatus ==
  (Replied /\ ~Classified) =>
    /\ Body.statusCode = 500
    /\ result.replies[1].status = 500

C5_Witness ==
  /\ Replied
  /\ exception = Thrown(Null)
  /\ ~InProduction
  /\ prev # None
  /\ prev.env = Str("production")
  /\ Body.statusCode = 500

\* C6: in production the message for an unclassified exception is the fixed
\* string, and any other unclassified exception handled for the same request
\* at the same instant would get the same whole body.
C6_ProductionRedacts ==
  (Replied /\ ~Classified /\ InProduction) =>
    /\ Body.message = Str("Internal server error")
    /\ \A e2 \in {e \in Exceptions : ~IsHttpException(e)} :
         LET other == CatchRun(e2, request, nodeEnv, now, fault)
         IN  other.replies # <<>> => other.replies[1].body = Body

C6_Witness ==
  /\ Replied
  /\ InProduction
  /\ exception = Err("Sensitive detail")
  /\ Body.message = Str("Internal server error")

\* the message text an unclassified thrown value carries, if any
CarriesText(e) ==
  \/ e.kind = "Error"
  \/ e.kind = "value" /\ e.val.t = "string"
  \/ e.kind = "value" /\ HasKey(e.val, "message") /\ e.val.f.message.t = "string"

OwnText(e) ==
  IF e.kind = "Error" THEN e.message
  ELSE IF e.val.t = "string" THEN e.val.s
  ELSE e.val.f.message.s

\* C7 as stated: outside production, every unclassified exception that
\* carries message text, Error or not, gets its own text as message.
C7_OwnTextOutsideProduction ==
  (Replied /\ ~Classified /\ ~InProduction /\ CarriesText(exception)) =>
    Body.message = Str(OwnText(exception))

\* C7 amended: outside production, an unclassified Error gets its own
\* message, and a non-Error thrown value gets the fixed string.
C7_ErrorTextOutsideProduction ==
  (Replied /\ ~Classified /\ ~InProduction) =>
    Body.message =
      IF exception.kind = "Error" THEN Str(exception.message)
      ELSE Str("Internal server error")

C7_Witness ==
  /\ Replied
  /\ nodeEnv = Undefined
  /\ exception = Err("Sensitive detail")
  /\ Body.message = Str("Sensitive detail")

\* C8: every run of catch on an unclassified Error redacts or not by the
\* value NODE_ENV has when that run starts, whatever it was before.
C8_FlagReadPerCall ==
  [][(pc = "raised" /\ pc' = "handled" /\ exception.kind = "Error"
        /\ result'.replies # <<>>)
      => result'.replies[1].body.message =
           IF nodeEnv = Str("production") THEN Str("Internal server error")
           ELSE Str(exception.message)]_vars

C8_Witness ==
  /\ Replied
  /\ prev # None
  /\ prev.env = Str("production")
  /\ prev.redacted
  /\ ~isProduction
  /\ nodeEnv = Str("development")
  /\ exception = Err("Sensitive detail")
  /\ Body.message = Str("Sensitive detail")

\* C9: a classified exception with a string payload gets that string as
\* message, the empty string included.
C9_StringPayload ==
  (Replied /\ Classified /\ exception.response.t = "string") =>
    Body.message = exception.response

C9_Witness ==
  /\ Replied
  /\ Classified
  /\ exception.response = Str("")
  /\ Body.message = Str("")

\* the elements of a in order, ", " between neighbours
RECURSIVE CommaSpaced(_)
CommaSpaced(a) ==
  IF a = <<>> THEN ""
  ELSE IF Len(a) = 1 THEN a[1]
  ELSE a[1] \o ", " \o CommaSpaced(Tail(a))

\* C10: a structured payload whose message field is a sequence of strings
\* gives the elements in order joined with ", "; a single string is used
\* unchanged.
C10_MessageField ==
  (Replied /\ PayloadHas("message")) =>
    LET field == exception.response.f.message
    IN  /\ (field.t = "array") => Body.message = Str(CommaSpaced(field.a))
        /\ (field.t = "string") => Body.message = field

C10_Witness ==
  /\ Replied
  /\ PayloadHas("message")
  /\ exception.response.f.message = Arr(<<"Error one", "Error two">>)
  /\ Body.message = Str("Error one, Error two")

\* C11: a classified exception whose structured payload has no message
\* field gets the fallback 'An HTTP error occurred' as message.
C11_NoMessageField ==
  (Replied /\ Classified /\ exception.response.t = "object"
     /\ ~HasKey(exception.response, "message")) =>
    Body.message = Str("An HTTP error occurred")

C11_Witness ==
  /\ Replied
  /\ exception = GetHttpError
  /\ Body.message = Str("An HTTP error occurred")

\* C12 as stated: the body has an errorCode key exactly when the exception
\* is classified and its structured payload contains an errorCode field, and
\* then the two values are equal.
C12_ErrorCodeIffField ==
  Replied =>
    /\ ("errorCode" \in DOMAIN Body) <=> PayloadHas("errorCode")
    /\ ("errorCode" \in DOMAIN Body) =>
         Body.errorCode = exception.response.f.errorCode

\* C12 amended: the body has an errorCode key exactly when the exception is
\* classified and its structured payload contains an errorCode field whose
\* value is not undefined, and then the two values are equal.
C12_ErrorCodeIffDefined ==
  Replied =>
    /\ ("errorCode" \in DOMAIN Body) <=>
         (PayloadHas("errorCode") /\ exception.response.f.errorCode # Undefined)
    /\ ("errorCode" \in DOMAIN Body) =>
         Body.errorCode = exception.response.f.errorCode

C12_Witness ==
  /\ Replied
  /\ PayloadHas("errorCode")
  /\ PayloadHas("message")
  /\ exception.response.f.errorCode = Str("RESOURCE_NOT_FOUND")
  /\ "errorCode" \in DOMAIN Body
  /\ Body.errorCode = Str("RESOURCE_NOT_FOUND")

\* C13: whenever the body has an errorCode key, its value is a string.
C13_ErrorCodeIsString ==
  (Replied /\ "errorCode" \in DOMAIN Body) => Body.errorCode.t = "string"

\* C14: the body's path is the path portion of the URL of the request being
\* handled, with or without a query string.
C14_PathPortion == Replied => Body.path = request.path

\* C15: when every collaborator works, catch does not throw and sends its
\* reply, whatever fails while the exception is inspected.
C15_NeverThrows ==
  (Handled /\ fault = "none") =>
    /\ ~result.threw
    /\ result.replies # <<>>

\* C16: when the call of reply fails, the failure leaves catch after
\* exactly one call of reply and exactly one log record.
C16_ReplyFailurePropagates ==
  (Handled /\ fault = "reply" /\ result.replies # <<>>) =>
    /\ result.threw
    /\ Len(result.replies) = 1
    /\ Len(result.logs) = 1
    /\ result.events = <<"getRequestUrl", "log", "reply">>

C16_Witness ==
  /\ Handled
  /\ fault = "reply"
  /\ exception = GetError
  /\ result.threw
  /\ Len(result.replies) = 1
  /\ Len(result.logs) = 1

\* C17: every caught exception gives exactly one log record, at error
\* severity, whose text is 'Exception caught: ' and the message of the body
\* and whose trace is the stack of an Error, the string form of any other
\* thrown value.
C17_OneLogRecord ==
  (Handled /\ fault \in {"none", "reply"}) =>
    /\ Len(result.logs) = 1
    /\ result.logs[1].level = "error"
    /\ result.logs[1].text = "Exception caught: " \o ToStringJS(Body.message)
    /\ result.logs[1].trace =
         IF exception.kind = "value" THEN ToStringJS(exception.val)
         ELSE exception.stack

\* C18: GET /http-error is answered with status 400 and a body that holds
\* the controller's text 'Bad request for filter testing' beside statusCode,
\* timestamp and path.
C18_HttpErrorRoute ==
  (Replied /\ request.path = "/http-error" /\ exception = GetHttpError) =>
    /\ result.replies[1].status = 400
    /\ {"statusCode", "timestamp", "path"} \subseteq DOMAIN Body
    /\ \E k \in DOMAIN Body \cap {"message", "errorCode"} :
         Body[k] = Str("Bad request for filter testing")

\* toISOString of the instants 0..9 ms, written out
IsoOfInstant(ms) == "1970-01-01T00:00:00.00" \o Digit(ms) \o "Z"

\* the instant an ISO string of the first 10 ms stands for
InstantOfIso(str) == CHOOSE ms \in 0..9 : IsoOfInstant(ms) = str

\* C19: the body's timestamp is the instant of the clock when catch runs,
\* whatever the payload carries, and is not earlier than the timestamp of
\* the previous reply.
C19_FreshTimestamp ==
  Replied =>
    /\ Body.timestamp = IsoOfInstant(now)
    /\ (prev # None /\ prev.timestamp # "") =>
         InstantOfIso(prev.timestamp) <= InstantOfIso(Body.timestamp)

C19_Witness ==
  /\ Replied
  /\ PayloadHas("timestamp")
  /\ now = 1
  /\ prev # None
  /\ prev.timestamp = "1970-01-01T00:00:00.000Z"
  /\ Body.timestamp = "1970-01-01T00:00:00.001Z"

\* C20: when logger.config.ts is loaded with NODE_ENV 'production',
\* pinoHttpOptions is level 'info' without a transport key; with any other
\* value, unset included, it is level 'debug' with the pino-pretty transport,
\* colourise true and translateTime 'SYS:standard'.
C20_PinoOptionsByFlag ==
  [][(pc = "boot" /\ pc' = "idle") =>
       IF nodeEnv = Str("production")
       THEN /\ pinoHttpOptions'.level = "info"
            /\ "transport" \notin DOMAIN pinoHttpOptions'
       ELSE /\ pinoHttpOptions'.level = "debug"
            /\ "transport" \in DOMAIN pinoHttpOptions'
            /\ pinoHttpOptions'.transport.target = "pino-pretty"
            /\ pinoHttpOptions'.transport.options.colourise = TRUE
            /\ pinoHttpOptions'.transport.options.translateTime
                 = "SYS:standard"]_vars

C20_Witness ==
  /\ pc = "idle"
  /\ handled = 0
  /\ nodeEnv = Str("production")
  /\ isProduction = TRUE
  /\ pinoHttpOptions.level = "info"
  /\ DOMAIN pinoHttpOptions = {"level"}

\* the server is listening
Listening == application.listening
\* C21: once the server listens, its port is the one PORT spells whenever
\* PORT is set, and 3000 when PORT is unset.
C21_PortWheneverSet ==
  Listening =>
    IF portEnv = Undefined
    THEN application.port = DEFAULT_PORT
    ELSE NumberToString(application.port) = portEnv.s

\* the calls catch makes on its collaborators, in program order
EffectOrder == <<"getRequestUrl", "log", "reply">>

\* C22: within one call of catch the URL is read first, the log record is
\* emitted next and the reply is sent last, the body carrying the URL that
\* was read; when reading the URL or emitting the log fails, no reply is sent.
C22_EffectOrder ==
  Handled =>
    /\ \E n \in 0..Len(EffectOrder) : result.events = SubSeq(EffectOrder, 1, n)
    /\ result.replies # <<>> =>
         /\ result.logs # <<>>
         /\ result.events = EffectOrder
         /\ Body.path = request.originalUrl
    /\ fault \in {"url", "log"} =>
         /\ result.replies = <<>>
         /\ \A i \in 1..Len(result.events) : result.events[i] # "reply"

C22_Witness ==
  /\ Handled
  /\ fault = "log"
  /\ result.events = <<"getRequestUrl", "log">>
  /\ result.replies = <<>>
  /\ result.threw

\* C23: each reply is sent on the response of the request that raised the
\* exception, with the path of that request, and its body is the one catch
\* computes from that exception, that URL, NODE_ENV as it is now and the
\* clock alone, whatever was handled before.
C23_Isolated ==
  Replied =>
    /\ result.replies[1].response = [of |-> request.id]
    /\ request.id = handled
    /\ Body.path = request.originalUrl
    /\ \A id \in 1..MaxCalls :
         LET alone == CatchRun(exception, [request EXCEPT !.id = id],
                               nodeEnv, now, "none")
         IN  /\ alone.replies # <<>>
             /\ alone.replies[1].body = Body
             /\ alone.replies[1].status = result.replies[1].status

C23_Witness ==
  /\ Replied
  /\ request.id = 2
  /\ result.replies[1].response = [of |-> 2]
  /\ prev # None
  /\ prev.redacted
  /\ exception = Err("Sensitive detail")
  /\ Body.message = Str("Sensitive detail")

\* C24: from the moment the server listens, the Pino logger is the
\* application logger and AllExceptionsFilter is the global filter, so every
\* exception is raised with the filter registered; the 'Application is
\* running' line is logged only once the server listens.
C24_BootOrder ==
  /\ Listening =>
       /\ application.created
       /\ application.logger = "pino"
       /\ application.filters = <<FilterName>>
  /\ pc \in {"raised", "handled"} =>
       /\ Listening
       /\ application.filters = <<FilterName>>
  /\ application.log # <<>> =>
       /\ Listening
       /\ Len(application.log) = 1
       /\ application.log[1].text =
            "Application is running on: http://localhost:"
              \o NumberToString(application.port)
  /\ handled > 0 => application.log # <<>>

C24_Witness ==
  /\ pc = "raised"
  /\ exception = GetHttpError
  /\ Listening
  /\ application.logger = "pino"
  /\ application.filters = <<"AllExceptionsFilter">>
  /\ application.log =
       <<[text |-> "Application is running on: http://localhost:8080",
          context |-> "Bootstrap"]>>

\* C25: once logger.config.ts is loaded, no step changes isProduction or
\* pinoHttpOptions, a change of NODE_ENV included, while the message of an
\* Error follows NODE_ENV as it is when catch runs.
C25_ConfigFrozen ==
  [][pc # "boot" =>
       /\ pinoHttpOptions' = pinoHttpOptions
       /\ isProduction' = isProduction]_vars

\* the logger is configured for development while the filter redacts
C25_Witness ==
  /\ Replied
  /\ exception = Err("Sensitive detail")
  /\ InProduction
  /\ ~isProduction
  /\ pinoHttpOptions.level = "debug"
  /\ "transport" \in DOMAIN pinoHttpOptions
  /\ Body.message = Str(InternalErrorMessage)

\* the reply catch makes for the current exception when NODE_ENV is env
ReplyUnder(env) == CatchRun(exception, request, env, now, fault).replies

\* C26: for a classified exception the reply is the same under every value
\* of NODE_ENV, a string payload being sent as it is; for an unclassified
\* exception the replies under two values of NODE_ENV differ at most in
\* message.
C26_FlagOnlyUnclassifiedMessage ==
  Replied =>
    /\ \A env \in NodeEnvs :
         /\ ReplyUnder(env) # <<>>
         /\ ReplyUnder(env)[1].status = result.replies[1].status
         /\ ReplyUnder(env)[1].response = result.replies[1].response
         /\ DOMAIN ReplyUnder(env)[1].body = DOMAIN Body
         /\ \A k \in DOMAIN Body \ {"message"} :
              ReplyUnder(env)[1].body[k] = Body[k]
         /\ Classified => ReplyUnder(env)[1].body.message = Body.message
    /\ (Classified /\ IsString(exception.response)) =>
         Body.message = exception.response

C26_Witness ==
  /\ Replied
  /\ Classified
  /\ InProduction
  /\ exception.response = Str("Forbidden")
  /\ Body.message = Str("Forbidden")
  /\ ReplyUnder(Str("development"))[1].body = Body

====
